---- MODULE Spec2Model ----
(***************************************************************************)
(* Session synchronisation core of the collaborative document editor:      *)
(*   utils/socket      (src/unnamed/part_000)  the shared connection       *)
(*   AuthContext       (src/src/context/AuthContext.tsx)                   *)
(*   DocumentEditor    (src/unnamed/part_001)  one editing session         *)
(* The browser's event loop runs one handler at a time, so every handler   *)
(* (and every resumption of an async function after an await) is one       *)
(* atomic action.                                                          *)
(***************************************************************************)
EXTENDS Integers, Sequences, FiniteSets, TLC

VARIABLES
    \* AuthContext state and localStorage
    user, token, authLoading, stored,
    \* utils/socket: the module-level handle and every connection io() made
    socket, ioConns,
    \* server-facing side of the connections
    listeners, outJoins,
    \* the DocumentEditor instance (React state, refs, route parameter)
    mounted, inst, id, sid, effSock, content, loading, saving, activeUsers,
    lastSaved, document, saveTimeoutRef,
    \* work in flight: GETs of fetchDocument, setTimeout timers, handleSave calls
    fetches, timers, persists, nextTid, nextSid,
    \* the versions panel, and the POSTs of handleRevertVersion in flight
    showVersions, reverts, nextRid,
    \* observation of the last step: the handler that ran, what it emitted on
    \* the socket, whether it raised an alert
    lastOp, out, alerted,
    \* observation of the autosave burst of the mounted instance: the body of
    \* its last edit, the bodies saved since, the edits the pending timer stands for
    lastEdit, sinceEdit, burstEdits,
    \* observation of the last revert of the mounted instance: the body it set,
    \* until the next local edit
    revertedTo,
    \* observation of the last presence events delivered to the mounted instance
    recent

vars == <<user, token, authLoading, stored, socket, ioConns, listeners, outJoins,
          mounted, inst, id, sid, effSock, content, loading, saving, activeUsers,
          lastSaved, document, saveTimeoutRef, fetches, timers, persists, nextTid,
          nextSid, showVersions, reverts, nextRid, lastOp, out, alerted, lastEdit, sinceEdit,
          burstEdits, revertedTo, recent>>

authVars   == <<user, token, authLoading, stored>>
sockVars   == <<socket, ioConns>>
wireVars   == <<listeners, outJoins>>
editorVars == <<mounted, inst, id, sid, effSock, content, loading, saving,
                activeUsers, lastSaved, document, saveTimeoutRef, showVersions>>
revertVars == <<showVersions, reverts, nextRid>>
asyncVars  == <<fetches, timers, persists, nextTid, nextSid, reverts, nextRid>>
burstVars  == <<lastEdit, sinceEdit, burstEdits, revertedTo>>

----------------------------------------------------------------------------
\* Bounds of the model
MaxConns    == 2      \* connections io() may create in one behaviour
MaxSessions == 2      \* effect runs (opened sessions) in one behaviour
MaxEdits    == 2      \* local edits (timers created) in one behaviour
MaxRoster   == 3      \* longest activeUsers array
MaxReverts  == 1      \* revert requests in one behaviour

\* Program constant: the debounce delay of handleContentChange, in seconds
DebounceDelay == 2

Users  == {1, 2, 3}         \* user ids (User.id is a number)
Tokens == {1, 2}          \* auth tokens issued by the server
Docs   == {1, 2}          \* document ids (the :id route parameter)
Bodies == {"a", "b"}      \* document bodies typed, fetched or relayed
Events == {"document-update", "active-users", "user-joined", "user-left",
           "document-saved", "error"}

NoOne == 0                \* null user / null token / null socket / no document

\* useState<Document | null>(null): the cached copy is null before the fetch
NoDocument == [doc |-> NoOne, content |-> "", versions |-> <<>>]

\* Version lists (the bodies of document.versions) a response may carry
VersionLists == {<<>>, <<"a">>, <<"b", "a">>}

\* response.data of GET /documents/:id, PUT and POST .../revert/:index
Document(d, b, vs) == [doc |-> d, content |-> b, versions |-> vs]

Emit(ev, d, b) == [ev |-> ev, doc |-> d, body |-> b]
Op(name, d, u, b, pre) ==
    [op |-> name, doc |-> d, uid |-> u, body |-> b, pre |-> pre, versions |-> <<>>]

----------------------------------------------------------------------------
\* utils/socket

\* io(SOCKET_URL, {auth: {token}}): a new connection object
Io(conns, tok) == Append(conns, [token |-> tok, connected |-> TRUE])

\* initSocket without its `if (!socket)` test: every call connects
initSocket_Reconnects(sock, conns, tok) == <<Len(conns) + 1, Io(conns, tok)>>

\* initSocket(token): <<socket', ioConns'>>
initSocket(sock, conns, tok) ==
    IF sock = NoOne
    THEN <<Len(conns) + 1, Io(conns, tok)>>
    ELSE <<sock, conns>>

\* getSocket()
getSocket == socket

\* disconnectSocket(): <<socket', ioConns'>>
disconnectSocket(sock, conns) ==
    IF sock # NoOne
    THEN <<NoOne, [conns EXCEPT ![sock].connected = FALSE]>>
    ELSE <<sock, conns>>

Observe(op, emits, al) == lastOp' = op /\ out' = emits /\ alerted' = al

----------------------------------------------------------------------------
\* AuthContext

\* AuthProvider's mount effect: restore the stored token and user
Restore ==
    /\ authLoading
    /\ IF stored.token # NoOne /\ stored.user # NoOne
       THEN LET r == initSocket(socket, ioConns, stored.token) IN
            /\ token' = stored.token
            /\ user' = stored.user
            /\ socket' = r[1]
            /\ ioConns' = r[2]
       ELSE UNCHANGED <<token, user, socket, ioConns>>
    /\ authLoading' = FALSE
    /\ Observe(Op("restore", NoOne, stored.user, "", socket # NoOne), <<>>, FALSE)
    /\ UNCHANGED <<stored, wireVars, editorVars, asyncVars, burstVars, recent>>

\* login / register resolved with {token: t, user: u}; both pages are public
\* routes, reachable while a user is already authenticated
SignIn(name, u, t) ==
    /\ ~authLoading /\ ~mounted
    /\ socket # NoOne \/ Len(ioConns) < MaxConns
    /\ LET r == initSocket(socket, ioConns, t) IN
       /\ socket' = r[1]
       /\ ioConns' = r[2]
    /\ stored' = [token |-> t, user |-> u]
    /\ token' = t
    /\ user' = u
    /\ Observe(Op(name, NoOne, u, "", socket # NoOne), <<>>, FALSE)
    /\ UNCHANGED <<authLoading, wireVars, editorVars, asyncVars, burstVars, recent>>

login(u, t) == SignIn("login", u, t)

register(u, t) == SignIn("register", u, t)

\* logout, from the documents list
logout ==
    /\ ~authLoading /\ ~mounted /\ user # NoOne
    /\ LET r == disconnectSocket(socket, ioConns) IN
       /\ socket' = r[1]
       /\ ioConns' = r[2]
    /\ stored' = [token |-> NoOne, user |-> NoOne]
    /\ token' = NoOne
    /\ user' = NoOne
    /\ Observe(Op("logout", NoOne, user, "", socket # NoOne), <<>>, FALSE)
    /\ UNCHANGED <<authLoading, wireVars, editorVars, asyncVars, burstVars, recent>>

----------------------------------------------------------------------------
\* DocumentEditor: the open/close effect

\* socket.on(event, handler) for the six events
SocketOn(ls, sock) == [ls EXCEPT ![sock] = [e \in Events |-> @[e] + 1]]

\* A cleanup that leaves the handlers registered
SocketOff_Forgotten(ls, sock) == ls

\* socket.off(event, handler): removes the handler when it is registered
SocketOff(ls, sock) ==
    [ls EXCEPT ![sock] = [e \in Events |-> IF @[e] > 0 THEN @[e] - 1 ELSE 0]]

\* The wire after the effect body ran for document d on the render's socket
EffectBody(w, sock, d) ==
    IF d = NoOne \/ sock = NoOne THEN w
    ELSE [ls  |-> SocketOn(w.ls, sock),
          oj  |-> [w.oj EXCEPT ![d] = @ + 1],
          out |-> Append(w.out, Emit("join-document", d, ""))]

\* The wire after the cleanup the effect returned for document d ran
EffectCleanup(w, sock, d) ==
    IF d = NoOne \/ sock = NoOne THEN w
    ELSE [ls  |-> SocketOff(w.ls, sock),
          oj  |-> [w.oj EXCEPT ![d] = @ - 1],
          out |-> Append(w.out, Emit("leave-document", d, ""))]

\* The effect without its dependency array: it re-runs on every render
EffectDepsChanged_Always(old, new) == TRUE

\* React re-runs an effect when one of its dependencies [id, socket] changed
EffectDepsChanged(old, new) == old # new

Wire == [ls |-> listeners, oj |-> outJoins, out |-> <<>>]

\* fetchDocument() up to its await: the GET of the effect run s in flight
FetchIssued(i, s, d, sock) ==
    [inst |-> i, sid |-> s, doc |-> d, joined |-> (d # NoOne /\ sock # NoOne)]

\* Navigation to /editor/d behind PrivateRoute: a fresh DocumentEditor instance
\* (useState initial values), then its effect
OpenEditor(d) ==
    /\ ~authLoading /\ ~mounted /\ user # NoOne
    /\ nextSid <= MaxSessions
    /\ LET sock == getSocket
           w == EffectBody(Wire, sock, d) IN
       /\ mounted' = TRUE /\ inst' = nextSid /\ id' = d /\ sid' = nextSid
       /\ effSock' = sock
       /\ content' = "" /\ loading' = TRUE /\ saving' = FALSE
       /\ activeUsers' = <<>> /\ lastSaved' = "null" /\ document' = NoDocument
       /\ saveTimeoutRef' = 0
       /\ fetches' = fetches \cup {FetchIssued(nextSid, nextSid, d, sock)}
       /\ nextSid' = nextSid + 1
       /\ listeners' = w.ls /\ outJoins' = w.oj
       /\ Observe(Op("open", d, NoOne, "", FALSE), w.out, FALSE)
    /\ lastEdit' = "none" /\ sinceEdit' = <<>> /\ burstEdits' = 0 /\ recent' = <<>>
    /\ revertedTo' = "none" /\ showVersions' = FALSE
    /\ UNCHANGED <<authVars, sockVars, timers, persists, nextTid, reverts, nextRid>>

\* The instance is unmounted: the effect's cleanup runs, state and refs are gone
Unmounted(w, op, al) ==
    /\ mounted' = FALSE /\ inst' = 0 /\ id' = NoOne /\ sid' = 0 /\ effSock' = NoOne
    /\ content' = "" /\ loading' = TRUE /\ saving' = FALSE
    /\ activeUsers' = <<>> /\ lastSaved' = "null" /\ document' = NoDocument
    /\ saveTimeoutRef' = 0
    /\ listeners' = w.ls /\ outJoins' = w.oj
    /\ Observe(op, w.out, al)
    /\ lastEdit' = "none" /\ sinceEdit' = <<>> /\ burstEdits' = 0 /\ recent' = <<>>
    /\ revertedTo' = "none" /\ showVersions' = FALSE

\* Back button / browser navigation away from the editor
CloseEditor ==
    /\ mounted
    /\ Unmounted(EffectCleanup(Wire, effSock, id), Op("close", id, NoOne, "", FALSE), FALSE)
    /\ UNCHANGED <<authVars, sockVars, asyncVars>>

\* The route renders the same instance again with parameter d (history
\* navigation between /editor/:id entries, or to the entry already shown)
RouteParam(d) ==
    /\ mounted
    /\ LET sock == getSocket IN
       IF EffectDepsChanged(<<id, effSock>>, <<d, sock>>)
       THEN /\ nextSid <= MaxSessions
            /\ LET w == EffectBody(EffectCleanup(Wire, effSock, id), sock, d) IN
               /\ id' = d /\ sid' = nextSid /\ effSock' = sock
               /\ fetches' = fetches \cup {FetchIssued(inst, nextSid, d, sock)}
               /\ nextSid' = nextSid + 1
               /\ listeners' = w.ls /\ outJoins' = w.oj
               /\ Observe(Op("route", d, NoOne, "", TRUE), w.out, FALSE)
       ELSE /\ UNCHANGED <<id, sid, effSock, fetches, nextSid, listeners, outJoins>>
            /\ Observe(Op("route", d, NoOne, "", FALSE), <<>>, FALSE)
    /\ UNCHANGED <<authVars, sockVars, mounted, inst, content, loading, saving,
                   activeUsers, lastSaved, document, saveTimeoutRef, timers,
                   persists, nextTid, revertVars, burstVars, recent>>

\* State setters of an instance act only while that instance is mounted
Live(i) == mounted /\ inst = i

\* fetchDocument() after its await, the GET resolved with a document of body b
\* and version list vs
FetchOkWith(f, b, vs) ==
    /\ f \in fetches
    /\ fetches' = fetches \ {f}
    /\ IF Live(f.inst)
       THEN /\ document' = Document(f.doc, b, vs)
            /\ content' = b
            /\ loading' = FALSE
       ELSE UNCHANGED <<document, content, loading>>
    /\ Observe(Op("fetchOk", f.doc, NoOne, "", Live(f.inst)), <<>>, FALSE)
    /\ UNCHANGED <<authVars, sockVars, wireVars, mounted, inst, id, sid, effSock,
                   saving, activeUsers, lastSaved, saveTimeoutRef, timers,
                   persists, nextTid, nextSid, revertVars, burstVars, recent>>

\* The GET resolved with a document that has no saved version yet
FetchOk(f, b) == FetchOkWith(f, b, <<>>)

\* fetchDocument() after its await, the GET rejected (not found, forbidden):
\* alert, then navigate('/documents') unmounts whatever editor is shown
FetchFail(f) ==
    /\ f \in fetches
    /\ fetches' = fetches \ {f}
    /\ IF mounted
       THEN Unmounted(EffectCleanup(Wire, effSock, id),
                      Op("fetchFail", f.doc, NoOne, "", f.joined), TRUE)
       ELSE /\ Observe(Op("fetchFail", f.doc, NoOne, "", f.joined), <<>>, TRUE)
            /\ UNCHANGED <<editorVars, wireVars, burstVars, recent>>
    /\ UNCHANGED <<authVars, sockVars, timers, persists, nextTid, nextSid, reverts, nextRid>>

----------------------------------------------------------------------------
\* DocumentEditor: local edits and the autosave

\* handleContentChange without its clearTimeout: the earlier timer stays armed
ClearTimeout_Forgotten(ts, ref) == ts

\* if (saveTimeoutRef.current) clearTimeout(saveTimeoutRef.current)
ClearTimeout(ts, ref) == IF ref # 0 THEN {t \in ts : t.tid # ref} ELSE ts

\* setTimeout(() => handleSave(newContent), 2000) of the render of instance i:
\* the callback closes over newContent, id and socket
SetTimeout(tid, i, d, b, sock) ==
    [tid |-> tid, inst |-> i, doc |-> d, body |-> b, sock |-> sock,
     left |-> DebounceDelay]

\* handleContentChange, the textarea's onChange: the textarea exists once loading
\* is over and a document is cached, and the event carries a changed value
handleContentChange(b) ==
    /\ mounted /\ ~loading /\ document # NoDocument
    /\ b # content
    /\ nextTid <= MaxEdits
    /\ content' = b
    /\ timers' = ClearTimeout(timers, saveTimeoutRef)
                    \cup {SetTimeout(nextTid, inst, id, b, effSock)}
    /\ saveTimeoutRef' = nextTid
    /\ nextTid' = nextTid + 1
    /\ Observe(Op("edit", NoOne, NoOne, "", FALSE),
               IF effSock # NoOne THEN <<Emit("document-change", id, b)>> ELSE <<>>,
               FALSE)
    /\ lastEdit' = b /\ sinceEdit' = <<>>
    /\ burstEdits' = IF \E t \in timers : t.tid = saveTimeoutRef THEN burstEdits + 1 ELSE 1
    /\ revertedTo' = "none"
    /\ UNCHANGED recent
    /\ UNCHANGED <<authVars, sockVars, wireVars, mounted, inst, id, sid, effSock,
                   loading, saving, activeUsers, lastSaved, document, fetches,
                   persists, nextSid, revertVars>>

\* One second passes for every timer that has not run out
Tick ==
    /\ \E t \in timers : t.left > 0
    /\ timers' = {[t EXCEPT !.left = IF @ > 0 THEN @ - 1 ELSE 0] : t \in timers}
    /\ Observe(Op("tick", NoOne, NoOne, "", FALSE), <<>>, FALSE)
    /\ UNCHANGED <<authVars, sockVars, wireVars, editorVars, fetches, persists,
                   nextTid, nextSid, revertVars, burstVars, recent>>

\* handleSave(contentToSave) up to its first await: the PUT in flight
PutIssued(t) ==
    [pid |-> t.tid, inst |-> t.inst, doc |-> t.doc,
     body |-> t.body, sock |-> t.sock, stage |-> "put"]

\* The timer callback runs: handleSave(newContent) of the closure
TimerFire(t) ==
    /\ t \in timers /\ t.left = 0
    /\ timers' = timers \ {t}
    /\ IF t.doc = NoOne
       THEN UNCHANGED <<persists, saving>>
       ELSE /\ persists' = persists \cup {PutIssued(t)}
            /\ saving' = IF Live(t.inst) THEN TRUE ELSE saving
    /\ Observe(Op("timer", NoOne, t.tid, "", Live(t.inst)), <<>>, FALSE)
    /\ sinceEdit' = IF Live(t.inst) THEN Append(sinceEdit, t.body) ELSE sinceEdit
    /\ UNCHANGED <<authVars, sockVars, wireVars, mounted, inst, id, sid, effSock,
                   content, loading, activeUsers, lastSaved, document,
                   saveTimeoutRef, fetches, nextTid, nextSid, revertVars, lastEdit,
                   burstEdits, revertedTo, recent>>

\* handleSave emitting before its PUT was awaited: the broadcast whatever the PUT did
SaveBroadcast_BeforeWrite(p, ok) ==
    IF p.sock # NoOne THEN <<Emit("save-document", p.doc, p.body)>> ELSE <<>>

\* What handleSave emits once its PUT settled: the save-document broadcast
\* follows the await inside the try block, so only a resolved PUT reaches it
SaveBroadcast(p, ok) ==
    IF ok /\ p.sock # NoOne THEN <<Emit("save-document", p.doc, p.body)>> ELSE <<>>

\* handleSave after the PUT resolved: broadcast, setLastSaved, then the GET
PutOk(p) ==
    /\ p \in persists /\ p.stage = "put"
    /\ persists' = (persists \ {p}) \cup {[p EXCEPT !.stage = "get"]}
    /\ lastSaved' = IF Live(p.inst) THEN "client" ELSE lastSaved
    /\ Observe(Op("putOk", NoOne, p.pid, "", Live(p.inst)), SaveBroadcast(p, TRUE), FALSE)
    /\ UNCHANGED <<authVars, sockVars, wireVars, mounted, inst, id, sid, effSock,
                   content, loading, saving, activeUsers, document, saveTimeoutRef,
                   fetches, timers, nextTid, nextSid, revertVars, burstVars, recent>>

\* A catch block that rolls the editor back to the cached document's body
SaveFailed_Rollback(p, name, emits) ==
    /\ persists' = persists \ {p}
    /\ saving' = IF Live(p.inst) THEN FALSE ELSE saving
    /\ content' = IF Live(p.inst) THEN document.content ELSE content
    /\ Observe(Op(name, NoOne, p.pid, "", Live(p.inst)), emits, TRUE)
    /\ UNCHANGED <<authVars, sockVars, wireVars, mounted, inst, id, sid, effSock,
                   loading, activeUsers, lastSaved, document, saveTimeoutRef,
                   fetches, timers, nextTid, nextSid, revertVars, burstVars, recent>>

\* handleSave without its finally block: a rejected save leaves saving set
SaveFailed_NoFinally(p, name, emits) ==
    /\ persists' = persists \ {p}
    /\ Observe(Op(name, NoOne, p.pid, "", Live(p.inst)), emits, TRUE)
    /\ UNCHANGED <<authVars, sockVars, wireVars, editorVars,
                   fetches, timers, nextTid, nextSid, reverts, nextRid, burstVars, recent>>

\* handleSave's catch and finally: alert, setSaving(false)
SaveFailed(p, name, emits) ==
    /\ persists' = persists \ {p}
    /\ saving' = IF Live(p.inst) THEN FALSE ELSE saving
    /\ Observe(Op(name, NoOne, p.pid, "", Live(p.inst)), emits, TRUE)
    /\ UNCHANGED <<authVars, sockVars, wireVars, mounted, inst, id, sid, effSock,
                   content, loading, activeUsers, lastSaved, document, saveTimeoutRef,
                   fetches, timers, nextTid, nextSid, revertVars, burstVars, recent>>

\* handleSave after the PUT rejected
PutFail(p) ==
    /\ p \in persists /\ p.stage = "put"
    /\ SaveFailed(p, "putFail", SaveBroadcast(p, FALSE))

\* handleSave after the refresh GET resolved with a document of body b and
\* version list vs: setDocument, finally
GetOkWith(p, b, vs) ==
    /\ p \in persists /\ p.stage = "get"
    /\ persists' = persists \ {p}
    /\ document' = IF Live(p.inst) THEN Document(p.doc, b, vs) ELSE document
    /\ saving' = IF Live(p.inst) THEN FALSE ELSE saving
    /\ Observe(Op("getOk", NoOne, p.pid, "", Live(p.inst)), <<>>, FALSE)
    /\ UNCHANGED <<authVars, sockVars, wireVars, mounted, inst, id, sid, effSock,
                   content, loading, activeUsers, lastSaved, saveTimeoutRef,
                   fetches, timers, nextTid, nextSid, revertVars, burstVars, recent>>

\* The refresh GET resolved with a document that has no saved version yet
GetOk(p, b) == GetOkWith(p, b, <<>>)

\* handleSave after the refresh GET rejected
GetFail(p) ==
    /\ p \in persists /\ p.stage = "get"
    /\ SaveFailed(p, "getFail", <<>>)

----------------------------------------------------------------------------
\* DocumentEditor: the versions panel and the revert

\* The versions button: setShowVersions(!showVersions)
ToggleVersions ==
    /\ mounted /\ ~loading /\ document # NoDocument
    /\ showVersions' = ~showVersions
    /\ Observe(Op("versions", NoOne, NoOne, "", showVersions), <<>>, FALSE)
    /\ UNCHANGED <<authVars, sockVars, wireVars, mounted, inst, id, sid, effSock,
                   content, loading, saving, activeUsers, lastSaved, document,
                   saveTimeoutRef, asyncVars, burstVars, recent>>

\* api.post(`/documents/${id}/revert/${versionIndex}`) of instance i in flight
RevertIssued(rid, i, d, index) == [rid |-> rid, inst |-> i, doc |-> d, index |-> index]

\* handleRevertVersion(index) up to its await, the confirm accepted: the button
\* of the k-th entry of document.versions passes the array index k - 1
handleRevertVersion(k) ==
    /\ mounted /\ ~loading /\ document # NoDocument /\ showVersions
    /\ id # NoOne
    /\ k \in DOMAIN document.versions
    /\ nextRid <= MaxReverts
    /\ reverts' = reverts \cup {RevertIssued(nextRid, inst, id, k - 1)}
    /\ nextRid' = nextRid + 1
    /\ Observe(Op("revert", id, nextRid, "", FALSE), <<>>, FALSE)
    /\ UNCHANGED <<authVars, sockVars, wireVars, editorVars, fetches, timers,
                   persists, nextTid, nextSid, burstVars, recent>>

\* A revert that keeps the version list the editor had
RevertApplied_KeepsVersions(cur, resp) == [resp EXCEPT !.versions = cur.versions]

\* setDocument(response.data): the cached document after a revert resolved
RevertApplied(cur, resp) == resp

\* handleRevertVersion after the POST resolved with a document of body b and
\* version list vs
RevertOk(r, b, vs) ==
    /\ r \in reverts
    /\ reverts' = reverts \ {r}
    /\ IF Live(r.inst)
       THEN /\ document' = RevertApplied(document, Document(r.doc, b, vs))
            /\ content' = b
            /\ showVersions' = FALSE
            /\ lastSaved' = "client"
            /\ revertedTo' = b
       ELSE UNCHANGED <<document, content, showVersions, lastSaved, revertedTo>>
    /\ Observe([Op("revertOk", r.doc, r.rid, b, Live(r.inst)) EXCEPT !.versions = vs],
               <<>>, TRUE)
    /\ UNCHANGED <<authVars, sockVars, wireVars, mounted, inst, id, sid, effSock,
                   loading, saving, activeUsers, saveTimeoutRef, fetches, timers,
                   persists, nextTid, nextSid, nextRid, lastEdit, sinceEdit,
                   burstEdits, recent>>

\* handleRevertVersion after the POST rejected: the catch block alerts
RevertFail(r) ==
    /\ r \in reverts
    /\ reverts' = reverts \ {r}
    /\ Observe(Op("revertFail", r.doc, r.rid, "", Live(r.inst)), <<>>, TRUE)
    /\ UNCHANGED <<authVars, sockVars, wireVars, editorVars, fetches, timers,
                   persists, nextTid, nextSid, nextRid, burstVars, recent>>

----------------------------------------------------------------------------
\* DocumentEditor: events the server pushes to the registered handlers

\* The connection delivers event ev to a handler of the open session
Delivers(ev) ==
    /\ mounted /\ sid # 0 /\ effSock # NoOne
    /\ ioConns[effSock].connected
    /\ listeners[effSock][ev] > 0

\* handleDocumentUpdate without its origin test: every update is applied
handleDocumentUpdate_NoGuard(cur, me, u, b) == b

\* handleDocumentUpdate: the body after {userId: u, content: b}
handleDocumentUpdate(cur, me, u, b) == IF u # me THEN b ELSE cur

DocumentUpdate(u, b) ==
    /\ Delivers("document-update")
    /\ content' = handleDocumentUpdate(content, user, u, b)
    /\ Observe(Op("document-update", NoOne, NoOne, b, u # user), <<>>, FALSE)
    /\ UNCHANGED <<authVars, sockVars, wireVars, mounted, inst, id, sid, effSock,
                   loading, saving, activeUsers, lastSaved, document,
                   saveTimeoutRef, showVersions, asyncVars, burstVars, recent>>

\* handleDocumentSaved
DocumentSaved ==
    /\ Delivers("document-saved")
    /\ lastSaved' = "server"
    /\ saving' = FALSE
    /\ Observe(Op("document-saved", NoOne, NoOne, "", saving), <<>>, FALSE)
    /\ UNCHANGED <<authVars, sockVars, wireVars, mounted, inst, id, sid, effSock,
                   content, loading, activeUsers, document, saveTimeoutRef,
                   showVersions, asyncVars, burstVars, recent>>

\* handleSocketError
SocketError ==
    /\ Delivers("error")
    /\ Observe(Op("error", NoOne, NoOne, "", FALSE), <<>>, TRUE)
    /\ UNCHANGED <<authVars, sockVars, wireVars, editorVars, asyncVars, burstVars, recent>>

\* Arrays of distinct user ids the server may send as a roster snapshot
Rosters ==
    {<<>>} \cup {<<u>> : u \in Users}
           \cup {p \in Users \X Users : p[1] # p[2]}

\* handleActiveUsers merging the snapshot into the roster it had
handleActiveUsers_Merge(prev, users) == prev \o users

\* handleActiveUsers: setActiveUsers(users)
handleActiveUsers(prev, users) == users

\* handleUserJoined: setActiveUsers(prev => [...prev, data.userId])
handleUserJoined(prev, u) == Append(prev, u)

\* handleUserLeft removing by position: prev.splice(prev.indexOf(u), 1), which
\* takes the last entry away when u is absent (indexOf gives -1)
handleUserLeft_Splice(prev, u) ==
    IF \E i \in DOMAIN prev : prev[i] = u
    THEN LET k == CHOOSE i \in DOMAIN prev :
                      prev[i] = u /\ \A j \in 1..(i - 1) : prev[j] # u
         IN  SubSeq(prev, 1, k - 1) \o SubSeq(prev, k + 1, Len(prev))
    ELSE SubSeq(prev, 1, Len(prev) - 1)

\* handleUserLeft: setActiveUsers(prev => prev.filter(x => x !== data.userId))
handleUserLeft(prev, u) == SelectSeq(prev, LAMBDA x : x # u)

Presence(ev, us, u) == [ev |-> ev, users |-> us, uid |-> u]

\* The last three presence events, newest last
Remember(log, e) ==
    IF Len(log) < 3 THEN Append(log, e) ELSE Append(Tail(log), e)

RosterEvent(e, op, next) ==
    /\ Delivers(e.ev)
    /\ activeUsers' = next
    /\ recent' = Remember(recent, e)
    /\ Observe(op, <<>>, FALSE)
    /\ UNCHANGED <<authVars, sockVars, wireVars, mounted, inst, id, sid, effSock,
                   content, loading, saving, lastSaved, document, saveTimeoutRef,
                   showVersions, asyncVars, burstVars>>

ActiveUsers(us) ==
    RosterEvent(Presence("active-users", us, NoOne), Op("active-users", NoOne, NoOne, "", FALSE),
                handleActiveUsers(activeUsers, us))

UserJoined(u) ==
    /\ Len(activeUsers) < MaxRoster
    /\ RosterEvent(Presence("user-joined", <<>>, u),
                   Op("user-joined", NoOne, u, "", \E i \in DOMAIN activeUsers : activeUsers[i] = u),
                   handleUserJoined(activeUsers, u))

UserLeft(u) ==
    RosterEvent(Presence("user-left", <<>>, u),
                Op("user-left", NoOne, u, "", \E i \in DOMAIN activeUsers : activeUsers[i] = u),
                handleUserLeft(activeUsers, u))

----------------------------------------------------------------------------
Init ==
    /\ user = NoOne /\ token = NoOne /\ authLoading = TRUE
    /\ stored \in {[token |-> NoOne, user |-> NoOne]}
                  \cup [token : Tokens, user : Users]
    /\ socket = NoOne /\ ioConns = <<>>
    /\ listeners = [c \in 1..MaxConns |-> [e \in Events |-> 0]]
    /\ outJoins = [d \in Docs |-> 0]
    /\ mounted = FALSE /\ inst = 0 /\ id = NoOne /\ sid = 0 /\ effSock = NoOne
    /\ content = "" /\ loading = TRUE /\ saving = FALSE /\ activeUsers = <<>>
    /\ lastSaved = "null" /\ document = NoDocument /\ saveTimeoutRef = 0
    /\ fetches = {} /\ timers = {} /\ persists = {} /\ nextTid = 1 /\ nextSid = 1
    /\ showVersions = FALSE /\ reverts = {} /\ nextRid = 1 /\ revertedTo = "none"
    /\ lastOp = Op("init", NoOne, NoOne, "", FALSE) /\ out = <<>> /\ alerted = FALSE
    /\ lastEdit = "none" /\ sinceEdit = <<>> /\ burstEdits = 0 /\ recent = <<>>

\* Authentication and the shared connection
AuthStep ==
    \/ Restore
    \/ \E u \in Users, t \in Tokens : login(u, t)
    \/ \E u \in Users, t \in Tokens : register(u, t)
    \/ logout

\* Opening and closing editing sessions
SessionStep ==
    \/ \E d \in Docs : OpenEditor(d)
    \/ CloseEditor
    \/ \E d \in Docs : RouteParam(d)
    \/ \E f \in fetches, b \in Bodies : FetchOk(f, b)
    \/ \E f \in fetches : FetchFail(f)

\* Local edits and the debounced autosave
SaveStep ==
    \/ \E b \in Bodies : handleContentChange(b)
    \/ Tick
    \/ \E t \in timers : TimerFire(t)
    \/ \E p \in persists : PutOk(p)
    \/ \E p \in persists : PutFail(p)
    \/ \E p \in persists, b \in Bodies : GetOk(p, b)
    \/ \E p \in persists : GetFail(p)

\* Events pushed by the server
UpdateStep ==
    \/ \E u \in Users, b \in Bodies : DocumentUpdate(u, b)
    \/ DocumentSaved
    \/ SocketError

PresenceStep ==
    \/ \E us \in Rosters : ActiveUsers(us)
    \/ \E u \in Users : UserJoined(u)
    \/ \E u \in Users : UserLeft(u)

\* The versions panel, reverts, and responses that carry a version list
RevertStep ==
    \/ ToggleVersions
    \/ \E k \in DOMAIN document.versions : handleRevertVersion(k)
    \/ \E r \in reverts, b \in Bodies, vs \in VersionLists : RevertOk(r, b, vs)
    \/ \E r \in reverts : RevertFail(r)
    \/ \E f \in fetches, b \in Bodies, vs \in VersionLists : FetchOkWith(f, b, vs)
    \/ \E p \in persists, b \in Bodies, vs \in VersionLists : GetOkWith(p, b, vs)

Next == AuthStep \/ SessionStep \/ SaveStep \/ UpdateStep \/ PresenceStep \/ RevertStep

Spec == Init /\ [][Next]_vars

\* The connection under every sequence of sign-in, sign-out and editor visits
SpecConnection ==
    Init /\ [][AuthStep \/ (\E d \in Docs : OpenEditor(d)) \/ CloseEditor]_vars

\* The page loads with user 1's token in localStorage
InitRestored == Init /\ stored = [token |-> 1, user |-> 1]

\* A restored or signed-in user opening, switching and closing documents
SpecSession ==
    Init /\ [][Restore \/ (\E u \in Users, t \in Tokens : login(u, t)) \/ SessionStep
               \/ SocketError]_vars

\* One restored user editing document 1: edits, timers, saves and relayed updates
SpecSave ==
    InitRestored
    /\ [][Restore \/ OpenEditor(1) \/ CloseEditor
          \/ (\E f \in fetches, b \in Bodies : FetchOk(f, b))
          \/ SaveStep
          \/ (\E u \in Users, b \in Bodies : DocumentUpdate(u, b)) \/ DocumentSaved]_vars

\* Every transport call of a save resolves or is rejected
Resolves ==
    \E p \in persists :
        PutOk(p) \/ PutFail(p) \/ (\E b \in Bodies : GetOk(p, b)) \/ GetFail(p)

\* Time passes, a timer that ran out runs its callback (the event loop), and
\* the transport answers every call
Fairness ==
    /\ WF_vars(Tick)
    /\ WF_vars(\E t \in timers : TimerFire(t))
    /\ WF_vars(Resolves)

\* One restored user editing document 1, with timers and transport that make progress
SpecAutosave ==
    InitRestored
    /\ [][Restore \/ OpenEditor(1) \/ CloseEditor
          \/ (\E f \in fetches, b \in Bodies : FetchOk(f, b))
          \/ SaveStep \/ DocumentSaved]_vars
    /\ Fairness

\* One restored user moving between documents while saves are in flight
SpecSwitch ==
    InitRestored
    /\ [][Restore \/ (\E d \in Docs : OpenEditor(d)) \/ CloseEditor
          \/ (\E d \in Docs : RouteParam(d))
          \/ (\E f \in fetches, b \in Bodies : FetchOk(f, b)) \/ SaveStep]_vars

\* One restored user editing document 1 and reverting it to earlier versions
SpecRevert ==
    InitRestored
    /\ [][Restore \/ OpenEditor(1) \/ CloseEditor
          \/ (\E f \in fetches, b \in Bodies, vs \in VersionLists : FetchOkWith(f, b, vs))
          \/ (\E b \in Bodies : handleContentChange(b))
          \/ ToggleVersions
          \/ (\E k \in DOMAIN document.versions : handleRevertVersion(k))
          \/ (\E r \in reverts, b \in Bodies, vs \in VersionLists : RevertOk(r, b, vs))
          \/ (\E r \in reverts : RevertFail(r))]_vars

\* The same user with the debounce timers running and the saves they issue
SpecRevertSave ==
    InitRestored
    /\ [][Restore \/ OpenEditor(1) \/ CloseEditor
          \/ (\E b \in Bodies : handleContentChange(b)) \/ Tick
          \/ (\E t \in timers : TimerFire(t))
          \/ (\E p \in persists : PutOk(p))
          \/ RevertStep]_vars

\* One restored user whose sessions receive presence events
SpecPresence ==
    InitRestored
    /\ [][Restore \/ (\E d \in Docs : OpenEditor(d)) \/ CloseEditor \/ PresenceStep]_vars

----------------------------------------------------------------------------
\* The connection handle (utils/socket)

LiveConns == {c \in DOMAIN ioConns : ioConns[c].connected}

SignIns == {"restore", "login", "register"}

\* C9: across every sequence of connect and disconnect calls at most one
\* connection is live and the handle names it; connecting while a handle is
\* active keeps that handle and creates no connection; disconnecting tears the
\* connection down and clears the handle; disconnecting with no handle changes
\* nothing.
C9_SingleConnection ==
    /\ [](/\ Cardinality(LiveConns) <= 1
          /\ socket # NoOne => LiveConns = {socket}
          /\ socket = NoOne => LiveConns = {}
          /\ disconnectSocket(NoOne, ioConns) = <<NoOne, ioConns>>)
    /\ [][/\ (lastOp'.op \in SignIns /\ socket # NoOne)
                => (socket' = socket /\ ioConns' = ioConns)
          /\ (lastOp'.op = "logout" /\ socket # NoOne)
                => (socket' = NoOne /\ Len(ioConns') = Len(ioConns)
                    /\ ~ioConns'[socket].connected)]_vars

\* C9 witness: a second sign-in found the handle active and one connection exists
C9_Witness ==
    /\ lastOp.op = "login" /\ lastOp.pre
    /\ Len(ioConns) = 1 /\ socket = 1

----------------------------------------------------------------------------
\* Opening and closing a session (the effect of DocumentEditor)

Leaves(emits) == SelectSeq(emits, LAMBDA e : e.ev = "leave-document")

NoHandlers == \A c \in DOMAIN listeners : \A e \in Events : listeners[c][e] = 0

\* C7: rendering the editor again for the document that is already open emits
\* no join-document and registers nothing; an open session has exactly one
\* handler per event type on the connection, none elsewhere, and one
\* outstanding join, for its own document.
C7_OneHandlerPerEvent ==
    /\ [](mounted =>
            /\ effSock # NoOne
            /\ \A c \in DOMAIN listeners : \A e \in Events :
                  listeners[c][e] = IF c = effSock THEN 1 ELSE 0
            /\ \A d \in Docs : outJoins[d] = IF d = id THEN 1 ELSE 0)
    /\ [][(mounted /\ lastOp'.op = "route" /\ lastOp'.doc = id)
             => (out' = <<>> /\ listeners' = listeners /\ outJoins' = outJoins
                 /\ sid' = sid /\ fetches' = fetches)]_vars

\* C7 witness: the open document was rendered again and its session is the same
C7_Witness ==
    /\ mounted /\ lastOp.op = "route" /\ ~lastOp.pre /\ lastOp.doc = id
    /\ outJoins[id] = 1 /\ out = <<>>

\* C8: a step that closes a session emits exactly one leave-document, for the
\* session's document and before anything else, removes the session's handlers
\* and leaves the connection as it was; no other step emits a leave-document;
\* with no session open no handler and no join is outstanding.
C8_CloseLeavesAndUnregisters ==
    /\ [](~mounted => (NoHandlers /\ \A d \in Docs : outJoins[d] = 0))
    /\ [](\A d \in Docs : outJoins[d] >= 0)
    /\ [][(mounted /\ sid' # sid)
             => (/\ Leaves(out') = <<Emit("leave-document", id, "")>>
                 /\ out'[1] = Emit("leave-document", id, "")
                 /\ socket' = socket /\ ioConns' = ioConns
                 /\ ioConns[socket].connected
                 /\ \A e \in Events :
                       listeners'[effSock][e] = IF mounted' THEN 1 ELSE 0)]_vars
    /\ [][(~mounted \/ sid' = sid) => Leaves(out') = <<>>]_vars

\* C8 witness: the editor was closed, one leave-document went out, no handler is
\* left and the connection is still live
C8_Witness ==
    /\ lastOp.op = "close" /\ ~mounted
    /\ out = <<Emit("leave-document", lastOp.doc, "")>>
    /\ NoHandlers
    /\ socket # NoOne /\ ioConns[socket].connected

\* C10: when the document fetch of an open fails, that open has emitted no
\* join-document.
C10_JoinOnlyAfterFetch == lastOp.op = "fetchFail" => ~lastOp.pre

----------------------------------------------------------------------------
\* The presence roster

Snapshot(us) == Presence("active-users", us, NoOne)

Joined(u) == Presence("user-joined", <<>>, u)

Left(u) == Presence("user-left", <<>>, u)

\* C5: a snapshot replaces the roster whatever it held, and after snapshot
\* {A,B}, join of C, leave of B the roster, and so the user count, is {A,C}.
C5_SnapshotJoinLeave ==
    /\ (lastOp.op = "active-users" => activeUsers = recent[Len(recent)].users)
    /\ \A A \in Users, B \in Users, C \in Users :
          (A # B /\ B # C /\ A # C
           /\ recent = <<Snapshot(<<A, B>>), Joined(C), Left(B)>>)
              => (activeUsers = <<A, C>> /\ Len(activeUsers) = 2)

\* C5 witness: snapshot {1,2}, join of 3 and leave of 2 were delivered in turn
\* to a roster that held something else before
C5_Witness ==
    /\ recent = <<Snapshot(<<1, 2>>), Joined(3), Left(2)>>
    /\ activeUsers = <<1, 3>>

\* C6: each identity appears in the roster at most once.
C6_NoDuplicateIdentity ==
    \A i \in DOMAIN activeUsers, j \in DOMAIN activeUsers :
        i # j => activeUsers[i] # activeUsers[j]

----------------------------------------------------------------------------
\* Relayed updates

\* C2: a document-update from another identity makes the local body the
\* update's body; one from the local identity leaves the local body as it was.
C2_RemoteUpdateOverwrites ==
    [][lastOp'.op = "document-update"
          => content' = IF lastOp'.pre THEN lastOp'.body ELSE content]_vars

\* C2 witness: an update from another identity replaced a body the local user
\* had typed
C2_Witness ==
    /\ lastOp.op = "document-update" /\ lastOp.pre
    /\ lastEdit # "none" /\ lastEdit # lastOp.body
    /\ content = lastOp.body

----------------------------------------------------------------------------
\* The autosave

Pending(i) == {t \in timers : t.inst = i}

\* C1: once the mounted editor was edited, either one timer is armed, carrying
\* the body of the most recent edit, and nothing was saved since that edit, or
\* no timer is armed and exactly one save was issued since, carrying that body;
\* a timer runs only when the whole delay passed since the edit that armed it.
C1_OnePersistPerBurst ==
    /\ [](\A i \in 1..MaxSessions : Cardinality(Pending(i)) <= 1)
    /\ []((mounted /\ lastEdit = "none") => (Pending(inst) = {} /\ sinceEdit = <<>>))
    /\ []((mounted /\ lastEdit # "none") =>
            \/ /\ sinceEdit = <<>>
               /\ \E t \in timers :
                     /\ Pending(inst) = {t}
                     /\ t.tid = saveTimeoutRef /\ t.body = lastEdit
            \/ /\ sinceEdit = <<lastEdit>>
               /\ Pending(inst) = {})
    /\ [][lastOp'.op = "timer"
             => \E t \in timers :
                   /\ t.tid = lastOp'.uid /\ t.left = 0
                   /\ timers' = timers \ {t}
                   /\ persists' = persists \cup {PutIssued(t)}
                   /\ PutIssued(t).body = t.body]_vars
    /\ [][lastOp'.op = "edit"
             => \A t \in timers' : t.inst = inst => t.left = DebounceDelay]_vars
    /\ [][persists' \ persists # {} => lastOp'.op \in {"timer", "putOk"}]_vars

\* C1 witness: two edits within the delay, then the timer ran: one save, with
\* the body of the second edit
C1_Witness ==
    /\ mounted /\ lastOp.op = "timer" /\ lastOp.pre
    /\ burstEdits = 2
    /\ sinceEdit = <<lastEdit>>
    /\ \E p \in persists : persists = {p} /\ p.body = lastEdit /\ p.stage = "put"

\* C3: at most one save of a session is in flight.
C3_OnePersistInFlight ==
    \A p \in persists, q \in persists : p.inst = q.inst => p = q

\* C4: the broadcast goes out in the step in which the write resolved and the
\* refresh is issued in that step; a write that failed emits nothing, issues no
\* refresh, raises an alert and arms no timer; only a local edit arms a timer.
C4_WriteBroadcastRefresh ==
    /\ [](\A p \in persists : p.stage \in {"put", "get"})
    /\ [][lastOp'.op = "putOk"
             => \E p \in persists :
                   /\ p.pid = lastOp'.uid /\ p.stage = "put"
                   /\ out' = <<Emit("save-document", p.doc, p.body)>>
                   /\ persists' = (persists \ {p}) \cup {[p EXCEPT !.stage = "get"]}]_vars
    /\ [][lastOp'.op = "putFail"
             => \E p \in persists :
                   /\ p.pid = lastOp'.uid /\ p.stage = "put"
                   /\ out' = <<>> /\ alerted'
                   /\ persists' = persists \ {p}
                   /\ timers' = timers]_vars
    /\ [][(\E i \in DOMAIN out' : out'[i].ev = "save-document")
             => lastOp'.op = "putOk"]_vars
    /\ [][(\E p \in persists' \ persists : p.stage = "get")
             => lastOp'.op = "putOk"]_vars
    /\ [][timers' \ timers # {} => lastOp'.op \in {"edit", "tick"}]_vars

\* C4 witness: the write of the only save failed: alert, nothing emitted, nothing
\* in flight, no timer armed
C4_Witness ==
    /\ mounted /\ lastOp.op = "putFail" /\ lastOp.pre
    /\ alerted /\ out = <<>>
    /\ persists = {} /\ timers = {}


----------------------------------------------------------------------------
\* The pending-save indicator

\* C11: while a save of the mounted editor is outstanding the pending-save
\* indicator is set.
C11_SavingWhileOutstanding == (\E p \in persists : Live(p.inst)) => saving


----------------------------------------------------------------------------
\* Timers and saves across the close of a session

\* C12: a timer that runs was armed by the editor instance that is still
\* mounted: closing the editor cancelled the timer it had armed.
C12_CloseCancelsTimer == lastOp.op = "timer" => lastOp.pre

\* C15: the save a timer of the mounted editor issues carries the local body as
\* it is when the timer runs.
C15_PersistCarriesCurrentBody ==
    (lastOp.op = "timer" /\ lastOp.pre)
        => \A p \in persists : p.pid = lastOp.uid => p.body = content

\* C20: when the initial fetch resolves after an update from another identity
\* was applied to the still loading editor, the local body stays that update's
\* body.
C20_UpdateBeforeFetchKept ==
    [][(mounted /\ loading /\ content # ""
        /\ lastOp'.op = "fetchOk" /\ lastOp'.pre)
          => content' = content]_vars


----------------------------------------------------------------------------
\* A save that fails

SaveFailures == {"putFail", "getFail"}

\* C13: a step in which a save fails (its write or its refresh was rejected)
\* leaves the local body, the cached document and the open session as they
\* were, and raises an alert.
C13_FailedSaveKeepsBody ==
    [][lastOp'.op \in SaveFailures
          => (/\ content' = content /\ document' = document
              /\ mounted' = mounted /\ sid' = sid /\ id' = id
              /\ lastEdit' = lastEdit
              /\ alerted')]_vars

\* C13 witness: the write of the mounted editor's save failed and the body the
\* user typed, which differs from the cached document, is still the local body
C13_Witness ==
    /\ mounted /\ lastOp.op = "putFail" /\ lastOp.pre
    /\ lastEdit # "none" /\ content = lastEdit
    /\ content # document.content


----------------------------------------------------------------------------
\* The token of the connection

\* C19: the live connection was created with the token of the authenticated user.
C19_ConnectionCarriesCurrentToken ==
    socket # NoOne => ioConns[socket].token = token


----------------------------------------------------------------------------
\* Leaves

Others(roster, u) == SelectSeq(roster, LAMBDA x : x # u)

\* C17: a user-left event for an identity that is not in the roster leaves the
\* roster as it was and raises no alert; for an identity that is in the roster
\* it takes that identity out and keeps the other identities, in their order.
C17_LeaveRemovesOnlyThatIdentity ==
    [][lastOp'.op = "user-left"
          => (/\ ~alerted'
              /\ ~lastOp'.pre => activeUsers' = activeUsers
              /\ lastOp'.pre =>
                    (/\ \A i \in DOMAIN activeUsers' : activeUsers'[i] # lastOp'.uid
                     /\ activeUsers' = Others(activeUsers, lastOp'.uid)))]_vars

\* C17 witness: a leave of an absent identity was applied to the non-empty
\* roster the preceding snapshot had set
C17_Witness ==
    /\ lastOp.op = "user-left" /\ ~lastOp.pre
    /\ Len(recent) >= 2
    /\ recent[Len(recent) - 1].ev = "active-users"
    /\ recent[Len(recent) - 1].users = activeUsers
    /\ activeUsers # <<>>


----------------------------------------------------------------------------
\* Saves that outlive their session

SaveOutcomes == {"putOk", "putFail", "getOk", "getFail"}

\* The session that issued save p is the one open now
SessionOf(p) == Live(p.inst) /\ p.doc = id

\* C16: the completion of a save whose session was released (the editor was
\* closed or shows another document by now) changes neither the cached
\* document, nor the last-saved mark, nor the pending-save flag.
C16_ReleasedSessionSaveDiscarded ==
    [][\A p \in persists :
          (lastOp'.op \in SaveOutcomes /\ lastOp'.uid = p.pid /\ ~SessionOf(p))
              => UNCHANGED <<document, lastSaved, saving>>]_vars


----------------------------------------------------------------------------
\* Reverts

\* C14: a revert that succeeds replaces the local body and the version list
\* (and the rest of the cached document) by those of the document the server
\* returned; a revert that fails leaves the local body and the cached document,
\* with its version list, as they were.
C14_RevertReplacesWholesale ==
    [][/\ (lastOp'.op = "revertOk" /\ lastOp'.pre)
            => (/\ content' = lastOp'.body
                /\ document' = Document(lastOp'.doc, lastOp'.body, lastOp'.versions))
       /\ lastOp'.op = "revertFail"
            => (content' = content /\ document' = document)]_vars

\* C14 witness: a revert of the mounted editor succeeded after a local edit, and
\* the body and version list now shown are the returned ones, not the edit and
\* not the version list the reverted entry was picked from
C14_Witness ==
    /\ mounted /\ lastOp.op = "revertOk" /\ lastOp.pre
    /\ lastEdit # "none" /\ lastEdit # content
    /\ content = lastOp.body
    /\ document.versions = lastOp.versions
    /\ Len(document.versions) = 1

\* C18: once a revert succeeded and no local edit followed it, a timer of the
\* mounted editor that runs issues no save of a body other than the reverted one.
C18_NoPreRevertBodySaved ==
    (lastOp.op = "timer" /\ lastOp.pre /\ revertedTo # "none")
        => \A p \in persists : p.pid = lastOp.uid => p.body = revertedTo


----------------------------------------------------------------------------
\* Progress of the autosave

\* The saves of the mounted editor that have not finished
Outstanding == {p \in persists : Live(p.inst)}

\* The mounted editor's last edit had body b, a save carrying b was issued
\* since, every save of the editor finished, and the indicator is off
Settled(b) ==
    /\ mounted /\ lastEdit = b
    /\ \E i \in DOMAIN sinceEdit : sinceEdit[i] = b
    /\ Pending(inst) = {} /\ Outstanding = {}
    /\ ~saving

\* C21: when the editor stays open and its edits stop with body b, then, timers
\* and transport making progress, from some point on a save carrying b has been
\* issued, no save of the editor is outstanding and the pending-save indicator
\* is off, for as long as no further edit is made.
C21_AutosaveSettles ==
    \A b \in Bodies : (<>[](mounted /\ lastEdit = b)) => <>[]Settled(b)

\* C21 witness: the save of the last edit went through its write and its
\* refresh, and the editor is settled on that edit
C21_Witness ==
    /\ lastOp.op = "getOk" /\ lastOp.pre
    /\ \E b \in Bodies : Settled(b) /\ sinceEdit = <<b>>

====
